---- MODULE Spec2Model ----
(***************************************************************************)
(* Authentication core of the HawalaSend backend: registerUser and         *)
(* loginUser (controllers/authController.js), the users table              *)
(* (migrations/initDB.js) and the authMiddleware session guard             *)
(* (middleware/authMiddleware.js).                                         *)
(*                                                                         *)
(* Strings are tuples of one-character strings, so that trim(), LOWER()    *)
(* and the regular expressions of the source are computed, not assumed.    *)
(* The users table has the columns the controller reads and writes         *)
(* (email, password, username, role, created_at) together with the id,     *)
(* the status column and the UNIQUE constraints of the migration.          *)
(***************************************************************************)
EXTENDS Integers, Sequences, FiniteSets, TLC

\* ------------------------------------------------------------------ bounds
\* number of concurrent registerUser requests
NumReg == 2
\* number of salts bcrypt.hash may draw
NumSalts == 1
\* number of concurrent loginUser requests
NumLogin == 2
\* requests one address sends beyond the rate ceiling within one window
MaxOverLimit == 1

\* ------------------------------------------------------- program constants
SALT_ROUNDS == 12
PASSWORD_MIN_LENGTH == 8
\* JWT_EXPIRES_IN = '1h', in seconds
JWT_EXPIRES_IN == 3600
\* rateLimiter: points per duration (seconds)
RATE_POINTS == 5
RATE_DURATION == 60
\* authMiddleware refreshes a token with less than this many seconds left
REFRESH_BELOW == 600

\* ----------------------------------------------------------------- strings
\* the value of a field that is absent from the payload (JS undefined)
Absent == <<"undefined">>

UpperChars == <<"A", "B", "C", "D", "E", "F", "G", "H", "I", "J", "K", "L", "M",
                "N", "O", "P", "Q", "R", "S", "T", "U", "V", "W", "X", "Y", "Z">>
LowerChars == <<"a", "b", "c", "d", "e", "f", "g", "h", "i", "j", "k", "l", "m",
                "n", "o", "p", "q", "r", "s", "t", "u", "v", "w", "x", "y", "z">>
DigitChars == {"0", "1", "2", "3", "4", "5", "6", "7", "8", "9"}

IsUpper(c) == \E i \in DOMAIN UpperChars : UpperChars[i] = c
IsDigit(c) == c \in DigitChars
IsSpace(c) == c \in {" ", "\t", "\n"}

LowerChar(c) ==
  IF IsUpper(c)
  THEN LowerChars[CHOOSE i \in DOMAIN UpperChars : UpperChars[i] = c]
  ELSE c

\* String.prototype.toLowerCase / SQL LOWER()
ToLowerCase(s) == [i \in DOMAIN s |-> LowerChar(s[i])]

RECURSIVE TrimStart(_)
TrimStart(s) ==
  IF s # <<>> /\ IsSpace(Head(s)) THEN TrimStart(Tail(s)) ELSE s

RECURSIVE TrimEnd(_)
TrimEnd(s) ==
  IF s # <<>> /\ IsSpace(s[Len(s)]) THEN TrimEnd(SubSeq(s, 1, Len(s) - 1)) ELSE s

\* email?.trim(): undefined stays undefined
Trim(s) == IF s = Absent THEN Absent ELSE TrimEnd(TrimStart(s))

\* !s for a string or undefined
Falsy(s) == s = Absent \/ s = <<>>

\* [^\s@]+
NoSpaceNoAt(s) ==
  /\ s # <<>>
  /\ \A i \in DOMAIN s : ~IsSpace(s[i]) /\ s[i] # "@"

\* /^[^\s@]+@[^\s@]+\.[^\s@]+$/.test(s)
EmailRegexTest(s) ==
  \E i, j \in DOMAIN s :
    /\ i < j
    /\ s[i] = "@"
    /\ s[j] = "."
    /\ NoSpaceNoAt(SubSeq(s, 1, i - 1))
    /\ NoSpaceNoAt(SubSeq(s, i + 1, j - 1))
    /\ NoSpaceNoAt(SubSeq(s, j + 1, Len(s)))

\* /(?=.*[A-Z])(?=.*[0-9])/.test(s)
PasswordRegexTest(s) ==
  /\ \E i \in DOMAIN s : IsUpper(s[i])
  /\ \E i \in DOMAIN s : IsDigit(s[i])

\* ------------------------------------------------------------------ inputs
EmailA      == <<"a", "@", "x", ".", "c">>
EmailAUpper == <<"A", "@", "x", ".", "c">>
EmailB      == <<"b", "@", "x", ".", "c">>
EmailNoAt   == <<"a", "x", ".", "c">>
NameAlice   == <<"A", "l", "i", "c", "e">>
NameAliceLc == <<"a", "l", "i", "c", "e">>
GoodPassword  == <<"P", "a", "s", "s", "w", "0", "r", "d", "!">>
OtherPassword == <<"W", "r", "0", "n", "g", "P", "a", "s", "s">>
ShortPassword == <<"P", "a", "s", "s", "0">>
WeakPassword  == <<"p", "a", "s", "s", "w", "o", "r", "d", "!">>

Emails    == {EmailA, EmailAUpper, EmailB}
Usernames == {NameAlice, NameAliceLc}

\* request bodies of POST /register that pass validation
ValidBodies ==
  [email : Emails, username : Usernames, password : {GoodPassword}]

\* one request body per rejection of the validation block
InvalidBodies ==
  {[email |-> Absent,    username |-> NameAlice, password |-> GoodPassword],
   [email |-> EmailNoAt, username |-> NameAlice, password |-> GoodPassword],
   [email |-> EmailA,    username |-> NameAlice, password |-> ShortPassword],
   [email |-> EmailA,    username |-> NameAlice, password |-> WeakPassword]}

RegBodies == ValidBodies \cup InvalidBodies

RegReqs == 1 .. NumReg
Salts   == 1 .. NumSalts

\* ------------------------------------------------------------------ values
NoRow   == [id |-> 0]
NoHash  == [cost |-> 0]
NoToken == [alg |-> "", sig |-> <<>>]
NoUser  == [id |-> 0]
NoResp  == [status |-> 0]
NoBody  == [email |-> Absent, username |-> Absent, password |-> Absent]

VARIABLES
  users,    \* committed rows of the users table
  nextId,   \* next value of the users.id SERIAL sequence
  reg,      \* one registerUser execution per request
  login,    \* one loginUser execution per request
  guard,    \* the authMiddleware execution of the current protected request
  limiter,  \* RateLimiterMemory storage: per source address, points and expiry
  now,      \* the clock, in seconds
  nodeEnv,  \* process.env.NODE_ENV, fixed when the process starts
  admitted, \* per source address, the seconds at which authMiddleware let a
            \* request past step 1, over the RATE_DURATION seconds up to the
            \* latest request of the address
  logout,   \* the response of the latest POST /logout
  forgot    \* one POST /forgot-password execution per request

vars == <<users, nextId, reg, login, guard, limiter, now, nodeEnv,
          admitted, logout, forgot>>

\* --------------------------------------------------------------- bcrypt, jwt
\* bcrypt.hash(password, SALT_ROUNDS): salted, so two digests of one password
\* differ; the digest determines the password it was made from
BcryptHash(password, salt) ==
  [pw |-> password, salt |-> salt, cost |-> SALT_ROUNDS]

\* the HS256 signature of a token's payload under a secret
Hmac(secret, tok) == <<secret, tok.id, tok.email, tok.role, tok.iat, tok.exp>>

\* a token's claims and header, to be signed
Unsigned(payload, t) ==
  [id |-> payload.id, email |-> payload.email, role |-> payload.role,
   iat |-> t, exp |-> t + JWT_EXPIRES_IN, alg |-> "HS256", sig |-> <<>>]

\* jwt.sign(payload, JWT_SECRET, {expiresIn: '1h', algorithm: 'HS256'}) at time t
JwtSign(payload, t) ==
  [Unsigned(payload, t) EXCEPT !.sig = Hmac("JWT_SECRET", Unsigned(payload, t))]

sanitizeUser(user) ==
  [id |-> user.id, email |-> user.email, username |-> user.username,
   role |-> user.role, created_at |-> user.created_at]

\* ------------------------------------------------------------- users table
\* SelectExisting comparing without LOWER()
SelectExisting_CaseSensitive(rows, email, username) ==
  {u \in rows : u.email = email \/ u.username = username}

\* SELECT id FROM users WHERE LOWER(email) = LOWER($1) OR LOWER(username) = LOWER($2)
SelectExisting(rows, email, username) ==
  {u \in rows : \/ ToLowerCase(u.email) = ToLowerCase(email)
                \/ ToLowerCase(u.username) = ToLowerCase(username)}

\* username VARCHAR(50) UNIQUE, email VARCHAR(255) UNIQUE: equality of the
\* stored values
UniqueConflict(row, other) ==
  row.email = other.email \/ row.username = other.username

\* InsertValues storing the email as typed
InsertValues_EmailAsTyped(body, hashedPassword, id, t) ==
  [id |-> id,
   email |-> Trim(body.email),
   password |-> hashedPassword,
   username |-> Trim(body.username),
   role |-> "user",
   status |-> "active",
   created_at |-> t]

\* the VALUES list of registerUser's INSERT, with the column defaults
InsertValues(body, hashedPassword, id, t) ==
  [id |-> id,
   email |-> ToLowerCase(Trim(body.email)),
   password |-> hashedPassword,
   username |-> Trim(body.username),
   role |-> "user",
   status |-> "active",
   created_at |-> t]

\* rows inserted by transactions that are still open
PendingRows(except) ==
  {reg[q].pending : q \in {q \in RegReqs : q # except /\ reg[q].pending # NoRow}}

\* ------------------------------------------------------------- registerUser
\* debug is the optional member of the 500 body, "" when it is not there
RegResponse(status, code, error) ==
  [status |-> status, code |-> code, error |-> error, debug |-> "",
   user |-> NoUser, token |-> NoToken, cookie |-> NoToken]

MissingFields   == RegResponse(400, "MISSING_FIELDS", "All fields are required")
InvalidEmail    == RegResponse(400, "INVALID_EMAIL", "Invalid email format")
PasswordTooShort == RegResponse(400, "PASSWORD_TOO_SHORT", "Password must be at least 8 characters")
PasswordWeak    == RegResponse(400, "PASSWORD_WEAK", "Password must contain at least 1 number and 1 uppercase letter")
UserExists      == RegResponse(409, "USER_EXISTS", "Email or username already in use")
RegistrationFailed == RegResponse(500, "REGISTRATION_FAILED", "Registration failed. Please try again.")
DbConnectionError == RegResponse(500, "DB_CONNECTION_ERROR", "Database connection failed")

\* the outer catch: the 500 body for the error with message err under NODE_ENV = env
RegistrationFailedIn(env, err) ==
  [RegistrationFailed EXCEPT !.debug = IF env = "development" THEN err ELSE ""]

\* RegValidate testing the address pattern on the email as typed
RegValidate_EmailAsTyped(body) ==
  IF Falsy(Trim(body.email)) \/ Falsy(body.password) \/ Falsy(Trim(body.username))
  THEN MissingFields
  ELSE IF ~EmailRegexTest(body.email) THEN InvalidEmail
  ELSE IF Len(body.password) < PASSWORD_MIN_LENGTH THEN PasswordTooShort
  ELSE IF ~PasswordRegexTest(body.password) THEN PasswordWeak
  ELSE NoResp

\* the validation block: the rejection it answers with, or NoResp
RegValidate(body) ==
  IF Falsy(Trim(body.email)) \/ Falsy(body.password) \/ Falsy(Trim(body.username))
  THEN MissingFields
  ELSE IF ~EmailRegexTest(Trim(body.email)) THEN InvalidEmail
  ELSE IF Len(body.password) < PASSWORD_MIN_LENGTH THEN PasswordTooShort
  ELSE IF ~PasswordRegexTest(body.password) THEN PasswordWeak
  ELSE NoResp

\* ops lists the statements the request has sent to the store; err is the
\* message of the error caught; cookie is the token res.cookie has put into
\* the response under way; releases counts the calls of client.release()
RegIdle ==
  [pc |-> "idle", body |-> NoBody, hash |-> NoHash, client |-> FALSE,
   pending |-> NoRow, newUser |-> NoUser, token |-> NoToken,
   err |-> "", resp |-> NoResp, ops |-> <<>>, cookie |-> NoToken,
   releases |-> 0]

\* the request arrives; validation runs up to the first await
RegStart(r, body) ==
  /\ reg[r].pc = "idle"
  /\ reg' = [reg EXCEPT ![r] =
       IF RegValidate(body) # NoResp
       THEN [@ EXCEPT !.pc = "done", !.body = body, !.resp = RegValidate(body)]
       ELSE [@ EXCEPT !.pc = "check", !.body = body]]
  /\ UNCHANGED <<users, nextId, login, guard, limiter, now, nodeEnv,
               admitted, logout, forgot>>

\* pool.query(SELECT ...) sees the committed rows
RegCheckDuplicate(r) ==
  /\ reg[r].pc = "check"
  /\ reg' = [reg EXCEPT ![r] =
       IF SelectExisting(users, Trim(reg[r].body.email), Trim(reg[r].body.username)) # {}
       THEN [@ EXCEPT !.pc = "done", !.resp = UserExists,
                      !.ops = Append(@, "SELECT")]
       ELSE [@ EXCEPT !.pc = "hash", !.ops = Append(@, "SELECT")]]
  /\ UNCHANGED <<users, nextId, login, guard, limiter, now, nodeEnv,
               admitted, logout, forgot>>

RegHashPassword(r) ==
  /\ reg[r].pc = "hash"
  /\ \E salt \in Salts :
       reg' = [reg EXCEPT ![r].pc = "connect",
                          ![r].hash = BcryptHash(reg[r].body.password, salt)]
  /\ UNCHANGED <<users, nextId, login, guard, limiter, now, nodeEnv,
               admitted, logout, forgot>>

\* client = await pool.connect()
RegConnect(r) ==
  /\ reg[r].pc = "connect"
  /\ reg' = [reg EXCEPT ![r].pc = "begin", ![r].client = TRUE,
                        ![r].ops = Append(@, "CONNECT")]
  /\ UNCHANGED <<users, nextId, login, guard, limiter, now, nodeEnv,
               admitted, logout, forgot>>

RegBegin(r) ==
  /\ reg[r].pc = "begin"
  /\ reg' = [reg EXCEPT ![r].pc = "insert", ![r].ops = Append(@, "BEGIN")]
  /\ UNCHANGED <<users, nextId, login, guard, limiter, now, nodeEnv,
               admitted, logout, forgot>>

\* INSERT ... RETURNING: waits while an open transaction holds a conflicting
\* row, fails with unique_violation against a committed one
RegInsert(r) ==
  /\ reg[r].pc = "insert"
  /\ LET row == InsertValues(reg[r].body, reg[r].hash, nextId, now)
     IN /\ \A p \in PendingRows(r) : ~UniqueConflict(row, p)
        /\ reg' = [reg EXCEPT ![r] =
             IF \E u \in users : UniqueConflict(row, u)
             THEN [@ EXCEPT !.pc = "rollback", !.err = "unique_violation",
                            !.ops = Append(@, "INSERT")]
             ELSE [@ EXCEPT !.pc = "sign", !.pending = row,
                            !.newUser = sanitizeUser(row),
                            !.ops = Append(@, "INSERT")]]
  /\ nextId' = nextId + 1
  /\ UNCHANGED <<users, login, guard, limiter, now, nodeEnv,
               admitted, logout, forgot>>

\* RegIssueToken signing a role other than the row's
RegIssueToken_OtherRole(r) ==
  /\ reg[r].pc = "sign"
  /\ reg' = [reg EXCEPT ![r].pc = "commit",
                        ![r].token = JwtSign([reg[r].newUser EXCEPT !.role = "admin"], now)]
  /\ UNCHANGED <<users, nextId, login, guard, limiter, now, nodeEnv,
               admitted, logout, forgot>>

RegIssueToken(r) ==
  /\ reg[r].pc = "sign"
  /\ reg' = [reg EXCEPT ![r].pc = "commit",
                        ![r].token = JwtSign(reg[r].newUser, now)]
  /\ UNCHANGED <<users, nextId, login, guard, limiter, now, nodeEnv,
               admitted, logout, forgot>>

\* RegCommit answering 201 without the COMMIT
RegCommit_NoCommit(r) ==
  /\ reg[r].pc = "commit"
  /\ reg' = [reg EXCEPT ![r].pc = "done", ![r].pending = NoRow, ![r].client = FALSE,
                        ![r].releases = @ + 1,
                        ![r].cookie = reg[r].token,
                        ![r].resp = [status |-> 201, code |-> "",
                                     error |-> "", debug |-> "",
                                     user |-> sanitizeUser(reg[r].newUser),
                                     token |-> reg[r].token,
                                     cookie |-> reg[r].token]]
  /\ UNCHANGED <<users, nextId, login, guard, limiter, now, nodeEnv,
               admitted, logout, forgot>>

\* COMMIT, then the cookie, the 201 response and client.release()
RegCommit(r) ==
  /\ reg[r].pc = "commit"
  /\ users' = users \cup {reg[r].pending}
  /\ reg' = [reg EXCEPT ![r].pc = "done", ![r].pending = NoRow, ![r].client = FALSE,
                        ![r].ops = Append(@, "COMMIT"),
                        ![r].releases = @ + 1,
                        ![r].cookie = reg[r].token,
                        ![r].resp = [status |-> 201, code |-> "",
                                     error |-> "", debug |-> "",
                                     user |-> sanitizeUser(reg[r].newUser),
                                     token |-> reg[r].token,
                                     cookie |-> reg[r].token]]
  /\ UNCHANGED <<nextId, login, guard, limiter, now, nodeEnv,
               admitted, logout, forgot>>

\* RegRollback without the finally block
RegRollback_NoRelease(r) ==
  /\ reg[r].pc = "rollback"
  /\ reg' = [reg EXCEPT ![r].pc = "done", ![r].pending = NoRow,
                        ![r].ops = Append(@, "ROLLBACK"),
                        ![r].resp = [RegistrationFailedIn(nodeEnv, reg[r].err)
                                       EXCEPT !.cookie = reg[r].cookie]]
  /\ UNCHANGED <<users, nextId, login, guard, limiter, now, nodeEnv,
               admitted, logout, forgot>>

\* catch (insertError): ROLLBACK, rethrow to the outer catch, which answers
\* 500 on the response object as it is (a cookie set before the throw goes
\* out with it), then finally: client.release()
RegRollback(r) ==
  /\ reg[r].pc = "rollback"
  /\ reg' = [reg EXCEPT ![r].pc = "done", ![r].pending = NoRow, ![r].client = FALSE,
                        ![r].ops = Append(@, "ROLLBACK"),
                        ![r].releases = @ + 1,
                        ![r].resp = [RegistrationFailedIn(nodeEnv, reg[r].err)
                                       EXCEPT !.cookie = reg[r].cookie]]
  /\ UNCHANGED <<users, nextId, login, guard, limiter, now, nodeEnv,
               admitted, logout, forgot>>

\* the messages of the errors the store, bcrypt, jsonwebtoken or the response
\* object may throw
FaultMessages == {"Connection terminated unexpectedly"}

\* the statement awaited at a position of registerUser, "" where none is
RegStatement(pc) ==
  CASE pc = "check" -> <<"SELECT">>
    [] pc = "connect" -> <<"CONNECT">>
    [] pc = "begin" -> <<"BEGIN">>
    [] pc = "insert" -> <<"INSERT">>
    [] pc = "commit" -> <<"COMMIT">>
    [] OTHER -> <<>>

\* the awaited operation of the current position rejects with message msg:
\* the duplicate check is answered by its own catch, bcrypt.hash and
\* pool.connect by the outer catch, BEGIN, INSERT, jwt.sign and COMMIT go to
\* the catch that rolls back
RegFault(r, msg) ==
  /\ reg[r].pc \in {"check", "hash", "connect", "begin", "insert", "sign", "commit"}
  /\ reg' = [reg EXCEPT ![r] =
       IF reg[r].pc = "check"
       THEN [@ EXCEPT !.pc = "done", !.err = msg, !.resp = DbConnectionError,
                      !.ops = @ \o RegStatement("check")]
       ELSE IF reg[r].pc \in {"hash", "connect"}
       THEN [@ EXCEPT !.pc = "done", !.err = msg,
                      !.resp = RegistrationFailedIn(nodeEnv, msg),
                      !.ops = @ \o RegStatement(reg[r].pc)]
       ELSE [@ EXCEPT !.pc = "rollback", !.err = msg,
                      !.ops = @ \o RegStatement(reg[r].pc)]]
  /\ UNCHANGED <<users, nextId, login, guard, limiter, now, nodeEnv,
               admitted, logout, forgot>>

\* COMMIT succeeds and a statement after it (res.cookie, logger.info,
\* res.status(201).json) throws with message msg: the same catch is entered
RegRespondFault(r, msg) ==
  /\ reg[r].pc = "commit"
  /\ users' = users \cup {reg[r].pending}
  /\ \E cookieSet \in BOOLEAN :
       reg' = [reg EXCEPT ![r].pc = "rollback", ![r].pending = NoRow, ![r].err = msg,
                          ![r].cookie = IF cookieSet THEN reg[r].token ELSE NoToken,
                          ![r].ops = Append(@, "COMMIT")]
  /\ UNCHANGED <<nextId, login, guard, limiter, now, nodeEnv,
               admitted, logout, forgot>>

\* the ROLLBACK of catch (insertError) rejects with message msg (the
\* connection is lost and its transaction with it): the error leaves the
\* inner catch, the outer catch answers 500 with it, finally releases
RegRollbackFault(r, msg) ==
  /\ reg[r].pc = "rollback"
  /\ reg' = [reg EXCEPT ![r].pc = "done", ![r].pending = NoRow, ![r].client = FALSE,
                        ![r].err = msg,
                        ![r].ops = Append(@, "ROLLBACK"),
                        ![r].releases = @ + 1,
                        ![r].resp = [RegistrationFailedIn(nodeEnv, msg)
                                       EXCEPT !.cookie = reg[r].cookie]]
  /\ UNCHANGED <<users, nextId, login, guard, limiter, now, nodeEnv,
               admitted, logout, forgot>>

\* ---------------------------------------------------------------- loginUser
\* request bodies of POST /login
LoginBodies ==
  [email : {EmailAUpper, EmailB}, password : {GoodPassword, OtherPassword}]
    \cup {[email |-> Absent, password |-> GoodPassword],
          [email |-> EmailB, password |-> Absent]}

LoginReqs == 1 .. NumLogin

\* a decoy with a cost factor of 4
DecoyDigest_LowCost == [pw |-> Absent, salt |-> 0, cost |-> 4]

\* the second argument of bcrypt.compare in the branch that found no user:
\* '$2b$12$fakehashfor.timing.attack.prevention' is no digest of any password;
\* its cost field is 12 and the text after it is long enough to be taken as
\* a salt, so the comparison computes a digest before it answers false
DecoyDigest == [pw |-> Absent, salt |-> 0, cost |-> SALT_ROUNDS]

\* bcrypt.compare(password, digest)
BcryptCompare(password, digest) ==
  /\ digest.salt \in Salts
  /\ digest.pw = password

\* the key-expansion rounds bcrypt.compare runs: 2^cost, cost read from the
\* digest it is given
BcryptWork(digest) == 2 ^ digest.cost

LoginResponse(status, code, error) ==
  [status |-> status, code |-> code, error |-> error,
   user |-> NoUser, token |-> NoToken, cookie |-> NoToken]

MissingCredentials == LoginResponse(400, "MISSING_CREDENTIALS", "Email and password are required")
errorResponse      == LoginResponse(401, "INVALID_CREDENTIALS", "Invalid email or password")

\* SELECT * FROM users WHERE LOWER(email) = LOWER($1)
SelectByEmail(rows, email) ==
  {u \in rows : ToLowerCase(u.email) = ToLowerCase(email)}

\* LoginDecide without the isMatch test
LoginDecide_NoCompare(user, password, decoy, t) ==
  IF user = NoRow THEN errorResponse
  ELSE [status |-> 200, code |-> "", error |-> "",
        user |-> sanitizeUser(user),
        token |-> JwtSign(user, t),
        cookie |-> JwtSign(user, t)]

\* LoginDecide answering an unknown email with its own error
LoginDecide_UnknownEmail(user, password, decoy, t) ==
  IF user = NoRow THEN LoginResponse(404, "USER_NOT_FOUND", "No account for this email")
  ELSE IF ~BcryptCompare(password, user.password) THEN errorResponse
  ELSE [status |-> 200, code |-> "", error |-> "",
        user |-> sanitizeUser(user),
        token |-> JwtSign(user, t),
        cookie |-> JwtSign(user, t)]

\* LoginDecide answering with the row as selected
LoginDecide_WholeRow(user, password, decoy, t) ==
  IF user = NoRow THEN errorResponse
  ELSE IF ~BcryptCompare(password, user.password) THEN errorResponse
  ELSE [status |-> 200, code |-> "", error |-> "",
        user |-> user,
        token |-> JwtSign(user, t),
        cookie |-> JwtSign(user, t)]

\* the handler from the lookup's result to its response; decoy is what the
\* comparison against DecoyDigest returned
LoginDecide(user, password, decoy, t) ==
  IF user = NoRow THEN errorResponse
  ELSE IF ~BcryptCompare(password, user.password) THEN errorResponse
  ELSE [status |-> 200, code |-> "", error |-> "",
        user |-> sanitizeUser(user),
        token |-> JwtSign(user, t),
        cookie |-> JwtSign(user, t)]

LoginIdle ==
  [pc |-> "idle", body |-> [email |-> Absent, password |-> Absent],
   user |-> NoRow, compared |-> NoHash, resp |-> NoResp, ops |-> <<>>,
   work |-> <<>>]

\* LoginStart querying the store before it looks at the fields
LoginStart_QueryFirst(l, body) ==
  /\ login[l].pc = "idle"
  /\ login' = [login EXCEPT ![l].pc = "lookup", ![l].body = body]
  /\ UNCHANGED <<users, nextId, reg, guard, limiter, now, nodeEnv,
               admitted, logout, forgot>>

LoginStart(l, body) ==
  /\ login[l].pc = "idle"
  /\ login' = [login EXCEPT ![l] =
       IF Falsy(body.email) \/ Falsy(body.password)
       THEN [@ EXCEPT !.pc = "done", !.body = body, !.resp = MissingCredentials]
       ELSE [@ EXCEPT !.pc = "lookup", !.body = body]]
  /\ UNCHANGED <<users, nextId, reg, guard, limiter, now, nodeEnv,
               admitted, logout, forgot>>

\* const user = result.rows[0]
LoginLookup(l) ==
  /\ login[l].pc = "lookup"
  /\ LET rows == SelectByEmail(users, Trim(login[l].body.email))
     IN IF rows = {}
        THEN login' = [login EXCEPT ![l].pc = "verify", ![l].user = NoRow,
                                    ![l].ops = Append(@, "SELECT")]
        ELSE \E u \in rows :
               login' = [login EXCEPT ![l].pc = "verify", ![l].user = u,
                                      ![l].ops = Append(@, "SELECT")]
  /\ UNCHANGED <<users, nextId, reg, guard, limiter, now, nodeEnv,
               admitted, logout, forgot>>

\* LoginVerify answering an unknown email without a comparison
LoginVerify_NoDecoy(l) ==
  /\ login[l].pc = "verify"
  /\ \E decoy \in BOOLEAN :
       login' = [login EXCEPT
         ![l].pc = "done",
         ![l].compared = IF login[l].user = NoRow THEN NoHash
                         ELSE login[l].user.password,
         ![l].work = IF login[l].user = NoRow THEN @
                     ELSE Append(@, BcryptWork(login[l].user.password)),
         ![l].resp = LoginDecide(login[l].user, login[l].body.password, decoy, now)]
  /\ UNCHANGED <<users, nextId, reg, guard, limiter, now, nodeEnv,
               admitted, logout, forgot>>

\* bcrypt.compare against the stored digest or the decoy, then the response
LoginVerify(l) ==
  /\ login[l].pc = "verify"
  /\ \E decoy \in BOOLEAN :
       login' = [login EXCEPT
         ![l].pc = "done",
         ![l].compared = IF login[l].user = NoRow THEN DecoyDigest
                         ELSE login[l].user.password,
         ![l].work = Append(@, BcryptWork(IF login[l].user = NoRow THEN DecoyDigest
                                          ELSE login[l].user.password)),
         ![l].resp = LoginDecide(login[l].user, login[l].body.password, decoy, now)]
  /\ UNCHANGED <<users, nextId, reg, guard, limiter, now, nodeEnv,
               admitted, logout, forgot>>

AuthFailure == LoginResponse(500, "AUTH_FAILURE", "Authentication failed. Please try again.")

\* the query, bcrypt.compare or jwt.sign rejects: the catch of loginUser
LoginFault(l, msg) ==
  /\ login[l].pc \in {"lookup", "verify"}
  /\ login' = [login EXCEPT ![l].pc = "done", ![l].resp = AuthFailure,
                            ![l].ops = IF login[l].pc = "lookup"
                                       THEN Append(@, "SELECT") ELSE @]
  /\ UNCHANGED <<users, nextId, reg, guard, limiter, now, nodeEnv,
               admitted, logout, forgot>>

\* ------------------------------------------------------- account status
\* users.status: 'active', 'suspended' or 'closed', changed by administration
Statuses == {"active", "suspended", "closed"}

AdminSetStatus(u, status) ==
  /\ u \in users
  /\ status \in Statuses \ {u.status}
  /\ users' = (users \ {u}) \cup {[u EXCEPT !.status = status]}
  /\ UNCHANGED <<nextId, reg, login, guard, limiter, now, nodeEnv,
               admitted, logout, forgot>>

\* users.role: 'user' as inserted by registerUser, changed by administration
Roles == {"user", "admin"}

AdminSetRole(u, role) ==
  /\ u \in users
  /\ role \in Roles \ {u.role}
  /\ users' = (users \ {u}) \cup {[u EXCEPT !.role = role]}
  /\ UNCHANGED <<nextId, reg, login, guard, limiter, now, nodeEnv,
               admitted, logout, forgot>>

\* ---------------------------------------------------------- authMiddleware
Addresses == {"10.0.0.1", "10.0.0.2"}

\* the instants the clock passes through: a rate window's end, a token with
\* less than REFRESH_BELOW left, a token's expiry
Instants == {0, 60, 3001, 3600}

Tick(t) ==
  /\ t > now
  /\ now' = t
  /\ UNCHANGED <<users, nextId, reg, login, guard, limiter, nodeEnv,
               admitted, logout, forgot>>

\* tokens the clients hold: those of the 201 and 200 responses
IssuedTokens ==
  {reg[r].resp.token : r \in {r \in RegReqs : reg[r].resp.status = 201}}
    \cup {login[l].resp.token : l \in {l \in LoginReqs : login[l].resp.status = 200}}

\* a token with the last character of its signature removed
DropLastChar(tok) == [tok EXCEPT !.sig = SubSeq(tok.sig, 1, Len(tok.sig) - 1)]

\* a token re-encoded with the header {alg: 'none'} and no signature
WithAlgNone(tok) == [tok EXCEPT !.alg = "none", !.sig = <<>>]

\* a token whose header names another algorithm, its signature bytes kept
WithAlg(tok, alg) == [tok EXCEPT !.alg = alg]

\* 'Bearer ' followed by nothing: split(' ')[1] is the empty string
EmptyToken == NoToken

NoHeader == [present |-> FALSE, prefix |-> "", token |-> EmptyToken]

\* the Authorization headers a client may send
Headers ==
  {NoHeader}
    \cup [present : {TRUE}, prefix : {"Bearer "},
          token : IssuedTokens \cup {DropLastChar(t) : t \in IssuedTokens}
                    \cup {WithAlgNone(t) : t \in IssuedTokens}
                    \cup {WithAlg(t, "HS384") : t \in IssuedTokens}
                    \cup {EmptyToken}]
    \cup [present : {TRUE}, prefix : {"bearer "}, token : IssuedTokens]

\* authHeader?.startsWith('Bearer ')
StartsWithBearer(header) == header.present /\ header.prefix = "Bearer "

\* JwtVerify with the algorithm read from the token's header: 'none' asks for
\* no signature
JwtVerify_HeaderAlgorithm(tok, t) ==
  IF tok = EmptyToken THEN [err |-> "JsonWebTokenError", decoded |-> NoToken]
  ELSE IF tok.alg # "none" /\ tok.sig # Hmac("JWT_SECRET", tok)
  THEN [err |-> "JsonWebTokenError", decoded |-> NoToken]
  ELSE IF t >= tok.exp THEN [err |-> "TokenExpiredError", decoded |-> NoToken]
  ELSE [err |-> "", decoded |-> tok]

\* JwtVerify taking a token for expired only after its exp second has passed
JwtVerify_ExpiredAfterExp(tok, t) ==
  IF tok = EmptyToken THEN [err |-> "JsonWebTokenError", decoded |-> NoToken]
  ELSE IF tok.alg \notin {"HS256"} THEN [err |-> "JsonWebTokenError", decoded |-> NoToken]
  ELSE IF tok.sig # Hmac("JWT_SECRET", tok) THEN [err |-> "JsonWebTokenError", decoded |-> NoToken]
  ELSE IF t > tok.exp THEN [err |-> "TokenExpiredError", decoded |-> NoToken]
  ELSE [err |-> "", decoded |-> tok]

\* jwt.verify(token, JWT_SECRET, {algorithms: ['HS256'], ignoreExpiration: false})
\* at time t: the decoded claims, or the class of the error thrown
JwtVerify(tok, t) ==
  IF tok = EmptyToken THEN [err |-> "JsonWebTokenError", decoded |-> NoToken]
  ELSE IF tok.alg \notin {"HS256"} THEN [err |-> "JsonWebTokenError", decoded |-> NoToken]
  ELSE IF tok.sig # Hmac("JWT_SECRET", tok) THEN [err |-> "JsonWebTokenError", decoded |-> NoToken]
  ELSE IF t >= tok.exp THEN [err |-> "TokenExpiredError", decoded |-> NoToken]
  ELSE [err |-> "", decoded |-> tok]

\* the static methods class User defines
UserMethods == {"create", "findByEmail"}

\* User.findByPk(id, ...): the row with that primary key; calling a method
\* the class does not define throws a TypeError
User_findByPk(rows, id) ==
  IF "findByPk" \notin UserMethods THEN [err |-> "TypeError", row |-> NoRow]
  ELSE IF \E u \in rows : u.id = id
       THEN [err |-> "", row |-> CHOOSE u \in rows : u.id = id]
       ELSE [err |-> "", row |-> NoRow]

\* error instanceof cls: TokenExpiredError extends JsonWebTokenError
InstanceOf(err, cls) ==
  \/ err = cls
  \/ err = "TokenExpiredError" /\ cls = "JsonWebTokenError"

\* error.message
ErrorMessage(err) ==
  CASE err = "TypeError" -> "User.findByPk is not a function"
    [] err = "Error" -> "User not active or not found"
    [] err = "TokenExpiredError" -> "jwt expired"
    [] OTHER -> "invalid token"

GuardResponse(status, code, message) ==
  [status |-> status, code |-> code, message |-> message, retryAfter |-> 0]

\* the catch block of authMiddleware with the instanceof tests in the other order
AuthErrorResponse_JwtFirst(err) ==
  IF InstanceOf(err, "JsonWebTokenError")
  THEN GuardResponse(401, "MALFORMED_TOKEN", "Invalid or expired token")
  ELSE IF InstanceOf(err, "TokenExpiredError")
  THEN GuardResponse(401, "TOKEN_EXPIRED", "Session expired. Please login again.")
  ELSE IF ErrorMessage(err) = "User not active or not found"
  THEN GuardResponse(403, "USER_INACTIVE", "Account deactivated")
  ELSE GuardResponse(401, "INVALID_TOKEN", "Invalid or expired token")

\* the catch block of authMiddleware: the response for an error;
\* includes('not active') holds of one message only
AuthErrorResponse(err) ==
  IF InstanceOf(err, "TokenExpiredError")
  THEN GuardResponse(401, "TOKEN_EXPIRED", "Session expired. Please login again.")
  ELSE IF InstanceOf(err, "JsonWebTokenError")
  THEN GuardResponse(401, "MALFORMED_TOKEN", "Invalid or expired token")
  ELSE IF ErrorMessage(err) = "User not active or not found"
  THEN GuardResponse(403, "USER_INACTIVE", "Account deactivated")
  ELSE GuardResponse(401, "INVALID_TOKEN", "Invalid or expired token")

MissingToken == GuardResponse(401, "MISSING_TOKEN", "Authorization token required")

\* what a finished authMiddleware leaves: the response sent (NoGuardResp when
\* none), whether next() ran, req.user, the X-Refresh-Token header, and whether
\* step 4 was entered
NoGuardResp == GuardResponse(0, "", "")
NoReqUser == [id |-> 0, role |-> "", email |-> Absent]

Rejected(resp, lookup) ==
  [resp |-> resp, next |-> FALSE, user |-> NoReqUser, refresh |-> NoToken,
   lookup |-> lookup]

\* the catch block passing requests on after an error that is no token error
GuardCatch_FailOpen(err, lookup) ==
  IF InstanceOf(err, "JsonWebTokenError")
  THEN Rejected(AuthErrorResponse(err), lookup)
  ELSE [resp |-> NoGuardResp, next |-> TRUE, user |-> NoReqUser,
        refresh |-> NoToken, lookup |-> lookup]

\* catch (error): answer and return
GuardCatch(err, lookup) == Rejected(AuthErrorResponse(err), lookup)

\* GuardAccept refreshing a token with exactly REFRESH_BELOW seconds left too
GuardAccept_RefreshAtThreshold(user, decoded, t) ==
  [resp |-> NoGuardResp,
   next |-> TRUE,
   user |-> [id |-> user.id, role |-> user.role, email |-> user.email],
   refresh |-> IF decoded.exp - t <= REFRESH_BELOW
               THEN JwtSign([id |-> user.id, email |-> Absent, role |-> ""], t)
               ELSE NoToken,
   lookup |-> TRUE]

\* GuardAccept taking the role from the token's claims
GuardAccept_TokenRole(user, decoded, t) ==
  [resp |-> NoGuardResp,
   next |-> TRUE,
   user |-> [id |-> user.id, role |-> decoded.role, email |-> user.email],
   refresh |-> IF decoded.exp - t < REFRESH_BELOW
               THEN JwtSign([id |-> user.id, email |-> Absent, role |-> ""], t)
               ELSE NoToken,
   lookup |-> TRUE]

\* steps 5 and 6 for the row found
GuardAccept(user, decoded, t) ==
  [resp |-> NoGuardResp,
   next |-> TRUE,
   user |-> [id |-> user.id, role |-> user.role, email |-> user.email],
   refresh |-> IF decoded.exp - t < REFRESH_BELOW
               THEN JwtSign([id |-> user.id, email |-> Absent, role |-> ""], t)
               ELSE NoToken,
   lookup |-> TRUE]

\* steps 2 to 7 of authMiddleware at time t
GuardDecide(header, rows, t) ==
  IF ~StartsWithBearer(header) THEN Rejected(MissingToken, FALSE)
  ELSE LET v == JwtVerify(header.token, t)
       IN IF v.err # "" THEN GuardCatch(v.err, FALSE)
          ELSE LET found == User_findByPk(rows, v.decoded.id)
               IN IF found.err # "" THEN GuardCatch(found.err, TRUE)
                  ELSE IF found.row = NoRow \/ found.row.status # "active"
                  THEN GuardCatch("Error", TRUE)
                  ELSE GuardAccept(found.row, v.decoded, t)

\* GET /me for req.user.id = id: SELECT id, username, email, balance, role,
\* created_at FROM users WHERE id = $1; balance is the column's default
GetProfile(rows, id) ==
  IF \A u \in rows : u.id # id
  THEN [status |-> 404, user |-> NoUser]
  ELSE LET u == CHOOSE u \in rows : u.id = id
       IN [status |-> 200,
           user |-> [id |-> u.id, username |-> u.username, email |-> u.email,
                     balance |-> 0, role |-> u.role, created_at |-> u.created_at]]

LimiterEmpty == [value |-> 0, expiresAt |-> 0]

\* rateLimiter.consume(key) at time t: the stored record after it
Consume(rec, t) ==
  IF rec.value > 0 /\ rec.expiresAt > t
  THEN [rec EXCEPT !.value = @ + 1]
  ELSE [value |-> 1, expiresAt |-> t + RATE_DURATION]

GuardIdle ==
  [pc |-> "idle", ip |-> "", header |-> NoHeader, points |-> 0,
   out |-> Rejected(NoGuardResp, FALSE)]

\* the admissions of log within the RATE_DURATION seconds up to second t,
\* followed by one at t when the request of second t was let past
Admit(log, t, past) ==
  SelectSeq(log, LAMBDA s : s > t - RATE_DURATION) \o (IF past THEN <<t>> ELSE <<>>)

\* GuardRateLimit counting every address under one key
GuardRateLimit_SharedKey(ip, header) ==
  /\ guard.pc \in {"idle", "done"}
  /\ LET key == CHOOSE a \in Addresses : TRUE
         rec == Consume(limiter[key], now)
     IN /\ rec.value <= RATE_POINTS + MaxOverLimit
        /\ limiter' = [limiter EXCEPT ![key] = rec]
        /\ admitted' = [admitted EXCEPT ![ip] = Admit(@, now, rec.value <= RATE_POINTS)]
        /\ guard' =
             IF rec.value > RATE_POINTS
             THEN [pc |-> "done", ip |-> ip, header |-> header, points |-> rec.value,
                   out |-> Rejected([status |-> 429, code |-> "",
                                     message |-> "Too many requests",
                                     retryAfter |-> rec.expiresAt - now], FALSE)]
             ELSE [pc |-> "auth", ip |-> ip, header |-> header, points |-> rec.value,
                   out |-> Rejected(NoGuardResp, FALSE)]
  /\ UNCHANGED <<users, nextId, reg, login, now, nodeEnv, logout, forgot>>

\* step 1: a request arrives and consumes a point of its address
GuardRateLimit(ip, header) ==
  /\ guard.pc \in {"idle", "done"}
  /\ LET rec == Consume(limiter[ip], now)
     IN /\ rec.value <= RATE_POINTS + MaxOverLimit
        /\ limiter' = [limiter EXCEPT ![ip] = rec]
        /\ admitted' = [admitted EXCEPT ![ip] = Admit(@, now, rec.value <= RATE_POINTS)]
        /\ guard' =
             IF rec.value > RATE_POINTS
             THEN [pc |-> "done", ip |-> ip, header |-> header, points |-> rec.value,
                   out |-> Rejected([status |-> 429, code |-> "",
                                     message |-> "Too many requests",
                                     retryAfter |-> rec.expiresAt - now], FALSE)]
             ELSE [pc |-> "auth", ip |-> ip, header |-> header, points |-> rec.value,
                   out |-> Rejected(NoGuardResp, FALSE)]
  /\ UNCHANGED <<users, nextId, reg, login, now, nodeEnv, logout, forgot>>

\* steps 2 to 7
GuardAuthenticate ==
  /\ guard.pc = "auth"
  /\ guard' = [guard EXCEPT !.pc = "done",
                            !.out = GuardDecide(guard.header, users, now)]
  /\ UNCHANGED <<users, nextId, reg, login, limiter, now, nodeEnv,
               admitted, logout, forgot>>

\* ---------------------------------------------------------------- POST /logout
\* res.clearCookie('token', ...) and the answer; nothing of the process or
\* the store is read or written
LoggedOut ==
  [status |-> 200, message |-> "Logged out successfully", success |-> TRUE,
   cleared |-> "token"]

Logout ==
  /\ logout' = LoggedOut
  /\ UNCHANGED <<users, nextId, reg, login, guard, limiter, now, nodeEnv,
               admitted, forgot>>

\* ------------------------------------------------------ POST /forgot-password
ForgotReqs == {1, 2}

ForgotIdle == [pc |-> "idle", email |-> Absent, found |-> FALSE, resp |-> NoResp]

\* the emails of the forgot-password requests
ForgotEmails == {EmailA, EmailAUpper, EmailB, EmailNoAt, Absent}

\* the bodies of the route's answers (the second copy of the route adds a
\* member success, true with the 200 and false with the 500)
ForgotInvalid == [status |-> 400, message |-> "Please provide a valid email address"]
ForgotGeneric ==
  [status |-> 200,
   message |-> "If this email exists in our system, you will receive a password reset link."]
ForgotError == [status |-> 500, message |-> "Internal server error"]

\* SELECT id FROM users WHERE email = $1 with email.toLowerCase().trim()
SelectIdByEmail(rows, email) ==
  {u.id : u \in {u \in rows : u.email = Trim(ToLowerCase(email))}}

\* the request arrives; validation of the email as typed
ForgotStart(f, email) ==
  /\ forgot[f].pc = "idle"
  /\ forgot' = [forgot EXCEPT ![f] =
       IF Falsy(email) \/ ~EmailRegexTest(email)
       THEN [@ EXCEPT !.pc = "done", !.email = email, !.resp = ForgotInvalid]
       ELSE [@ EXCEPT !.pc = "lookup", !.email = email]]
  /\ UNCHANGED <<users, nextId, reg, login, guard, limiter, now, nodeEnv,
               admitted, logout>>

\* ForgotLookup telling the caller that no user has the email
ForgotLookup_RevealsAbsence(f) ==
  /\ forgot[f].pc = "lookup"
  /\ LET user == SelectIdByEmail(users, forgot[f].email)
     IN forgot' = [forgot EXCEPT ![f].pc = "done",
                                 ![f].found = user # {},
                                 ![f].resp = IF user = {}
                                             THEN [status |-> 404, message |-> "No account for this email"]
                                             ELSE ForgotGeneric]
  /\ UNCHANGED <<users, nextId, reg, login, guard, limiter, now, nodeEnv,
               admitted, logout>>

\* after the delay: the lookup, whose result is not read, and the answer
ForgotLookup(f) ==
  /\ forgot[f].pc = "lookup"
  /\ LET user == SelectIdByEmail(users, forgot[f].email)
     IN forgot' = [forgot EXCEPT ![f].pc = "done",
                                 ![f].found = user # {},
                                 ![f].resp = ForgotGeneric]
  /\ UNCHANGED <<users, nextId, reg, login, guard, limiter, now, nodeEnv,
               admitted, logout>>

\* the query rejects with message msg: the catch of the route
ForgotFault(f, msg) ==
  /\ forgot[f].pc = "lookup"
  /\ forgot' = [forgot EXCEPT ![f].pc = "done", ![f].resp = ForgotError]
  /\ UNCHANGED <<users, nextId, reg, login, guard, limiter, now, nodeEnv,
               admitted, logout>>

\* ----------------------------------------------------------- specifications
\* the values of NODE_ENV the source tests for, and the unset variable
Envs == {"production", "development", "undefined"}

\* the process started with NODE_ENV = env
InitIn(env) ==
  /\ users = {}
  /\ nextId = 1
  /\ reg = [r \in RegReqs |-> RegIdle]
  /\ login = [l \in LoginReqs |-> LoginIdle]
  /\ guard = GuardIdle
  /\ limiter = [a \in Addresses |-> LimiterEmpty]
  /\ now = 0
  /\ nodeEnv = env
  /\ admitted = [a \in Addresses |-> <<>>]
  /\ logout = NoResp
  /\ forgot = [f \in ForgotReqs |-> ForgotIdle]

\* the deployed process
Init == InitIn("production")

\* a process started in any environment
InitAnyEnv == \E env \in Envs : InitIn(env)

RegStep(r, bodies) ==
  \/ \E body \in bodies : RegStart(r, body)
  \/ RegCheckDuplicate(r)
  \/ RegHashPassword(r)
  \/ RegConnect(r)
  \/ RegBegin(r)
  \/ RegInsert(r)
  \/ RegIssueToken(r)
  \/ RegCommit(r)
  \/ RegRollback(r)

\* concurrent registrations
RegNext == \E r \in RegReqs : RegStep(r, RegBodies)

SpecReg == Init /\ [][RegNext]_vars

\* the body of the registration that precedes the logins
SeedBodies == {[email |-> EmailA, username |-> NameAlice, password |-> GoodPassword]}

LoginStep(l) ==
  \/ \E body \in LoginBodies : LoginStart(l, body)
  \/ LoginLookup(l)
  \/ LoginVerify(l)

AdminStep == \E u \in users, status \in Statuses : AdminSetStatus(u, status)

\* one registration, status changes and concurrent logins
LoginNext ==
  \/ \E body \in SeedBodies : RegStart(1, body)
  \/ RegCheckDuplicate(1)
  \/ RegHashPassword(1)
  \/ RegConnect(1)
  \/ RegBegin(1)
  \/ RegInsert(1)
  \/ RegIssueToken(1)
  \/ RegCommit(1)
  \/ AdminStep
  \/ \E l \in LoginReqs : LoginStep(l)

SpecLogin == Init /\ [][LoginNext]_vars

\* the login that precedes the protected requests
SeedLogins == {[email |-> EmailAUpper, password |-> GoodPassword]}

\* one registration, one login, status changes, the clock and protected requests
GuardNext ==
  \/ \E body \in SeedBodies : RegStart(1, body)
  \/ RegCheckDuplicate(1)
  \/ RegHashPassword(1)
  \/ RegConnect(1)
  \/ RegBegin(1)
  \/ RegInsert(1)
  \/ RegIssueToken(1)
  \/ RegCommit(1)
  \/ \E body \in SeedLogins : LoginStart(1, body)
  \/ LoginLookup(1)
  \/ LoginVerify(1)
  \/ AdminStep
  \/ \E t \in Instants \ {RATE_DURATION} : Tick(t)
  \/ \E header \in Headers : GuardRateLimit("10.0.0.1", header)
  \/ GuardAuthenticate

SpecGuard == Init /\ [][GuardNext]_vars

\* the seconds around the expiry of a token issued when the process started
ExpiryInstants == {JWT_EXPIRES_IN - 1, JWT_EXPIRES_IN, JWT_EXPIRES_IN + 1}

\* the seconds at which a token signed at second 0 has REFRESH_BELOW seconds
\* left, and one less
RefreshInstants == {JWT_EXPIRES_IN - REFRESH_BELOW, JWT_EXPIRES_IN - REFRESH_BELOW + 1}

\* 'Bearer ' followed by a token
Bearer(tok) == [present |-> TRUE, prefix |-> "Bearer ", token |-> tok]

\* one registration and protected requests carrying its token around the
\* token's expiry
TokenNext ==
  \/ \E body \in SeedBodies : RegStart(1, body)
  \/ RegCheckDuplicate(1)
  \/ RegHashPassword(1)
  \/ RegConnect(1)
  \/ RegBegin(1)
  \/ RegInsert(1)
  \/ RegIssueToken(1)
  \/ RegCommit(1)
  \/ \E t \in RefreshInstants \cup ExpiryInstants : Tick(t)
  \/ \E tok \in IssuedTokens : GuardRateLimit("10.0.0.1", Bearer(tok))
  \/ GuardAuthenticate

SpecToken == Init /\ [][TokenNext]_vars

\* payloads of POST /register: each field absent, empty, blank, padded with
\* spaces, and on either side of each test of the validation block
InputEmails ==
  {EmailA, EmailNoAt, Absent, <<>>, <<" ", " ">>,
   <<" ", "a", "@", "x", ".", "c", " ">>,
   <<"a", " ", "@", "x", ".", "c">>,
   <<"a", "@", "@", "x", ".", "c">>,
   <<"a", "@", "x", "c">>,
   <<"a", "@", "x", ".">>}

InputUsernames == {NameAlice, Absent, <<>>, <<" ", "\t">>, <<" ", "A", "l", " ">>}

InputPasswords ==
  {GoodPassword, ShortPassword, WeakPassword, Absent, <<>>,
   <<"P", "a", "s", "s", "w", "0", "r", "d">>,
   <<"P", "a", "s", "s", "w", "0", "r">>,
   <<"P", "a", "s", "s", "w", "o", "r", "d", "!">>,
   <<"p", "a", "s", "s", "w", "0", "r", "d", "!">>,
   <<" ", " ", " ", " ", " ", " ", " ", " ", " ">>,
   <<" ", " ", "P", "a", "s", "0", " ", " ">>}

InputBodies ==
  [email : InputEmails, username : InputUsernames, password : InputPasswords]

\* payloads of POST /login: each field present, absent and empty
InputLogins ==
  [email : {EmailAUpper, Absent, <<>>}, password : {GoodPassword, Absent, <<>>}]

\* one registration and one login with any payload
InputNext ==
  \/ \E body \in InputBodies : RegStart(1, body)
  \/ RegCheckDuplicate(1)
  \/ RegHashPassword(1)
  \/ RegConnect(1)
  \/ RegBegin(1)
  \/ RegInsert(1)
  \/ RegIssueToken(1)
  \/ RegCommit(1)
  \/ \E body \in InputLogins : LoginStart(1, body)
  \/ LoginLookup(1)
  \/ LoginVerify(1)

SpecInput == Init /\ [][InputNext]_vars

\* the body of a second registration, of another user
SecondBodies == {[email |-> EmailB, username |-> NameAliceLc, password |-> GoodPassword]}

\* two registrations of two users and a login of either
SessionNext ==
  \/ \E body \in SeedBodies : RegStart(1, body)
  \/ \E body \in SecondBodies : RegStart(2, body)
  \/ \E r \in {1, 2} :
       \/ RegCheckDuplicate(r)
       \/ RegHashPassword(r)
       \/ RegConnect(r)
       \/ RegBegin(r)
       \/ RegInsert(r)
       \/ RegIssueToken(r)
       \/ RegCommit(r)
  \/ \E body \in [email : {EmailAUpper, EmailB}, password : {GoodPassword}] :
       LoginStart(1, body)
  \/ LoginLookup(1)
  \/ LoginVerify(1)

SpecSession == Init /\ [][SessionNext]_vars

\* one registration and one login in a process of any environment, each
\* awaited operation succeeding or failing
FaultNext ==
  \/ RegStep(1, SeedBodies)
  \/ \E msg \in FaultMessages : RegFault(1, msg)
  \/ \E msg \in FaultMessages : RegRespondFault(1, msg)
  \/ \E msg \in FaultMessages : RegRollbackFault(1, msg)
  \/ \E body \in SeedLogins : LoginStart(1, body)
  \/ LoginLookup(1)
  \/ LoginVerify(1)
  \/ \E msg \in FaultMessages : LoginFault(1, msg)

SpecFault == InitAnyEnv /\ [][FaultNext]_vars

\* the last second of a rate window opened when the process started, and
\* the first second after it
RateInstants == {RATE_DURATION - 1, RATE_DURATION}

\* a registration, then protected requests from two addresses, with and
\* without its token, around the end of a rate window
RateNext ==
  \/ \E body \in SeedBodies : RegStart(1, body)
  \/ RegCheckDuplicate(1)
  \/ RegHashPassword(1)
  \/ RegConnect(1)
  \/ RegBegin(1)
  \/ RegInsert(1)
  \/ RegIssueToken(1)
  \/ RegCommit(1)
  \/ reg[1].pc = "done" /\ \E t \in RateInstants : Tick(t)
  \/ reg[1].pc = "done"
       /\ \E ip \in Addresses, header \in {NoHeader} \cup {Bearer(tok) : tok \in IssuedTokens} :
            GuardRateLimit(ip, header)
  \/ GuardAuthenticate

SpecRate == Init /\ [][RateNext]_vars

\* one registration, a login of its user, a logout, a change of the user's
\* role, the clock up to a token's last 600 seconds, and protected requests
\* carrying the tokens issued
StoreNext ==
  \/ \E body \in SeedBodies : RegStart(1, body)
  \/ RegCheckDuplicate(1)
  \/ RegHashPassword(1)
  \/ RegConnect(1)
  \/ RegBegin(1)
  \/ RegInsert(1)
  \/ RegIssueToken(1)
  \/ RegCommit(1)
  \/ \E body \in SeedLogins : LoginStart(1, body)
  \/ LoginLookup(1)
  \/ LoginVerify(1)
  \/ Logout
  \/ \E u \in users, role \in Roles : AdminSetRole(u, role)
  \/ \E t \in RefreshInstants : Tick(t)
  \/ \E tok \in IssuedTokens : GuardRateLimit("10.0.0.1", Bearer(tok))
  \/ GuardAuthenticate

SpecStore == Init /\ [][StoreNext]_vars

\* one registration and forgot-password requests before and after it
ForgotNext ==
  \/ \E body \in SeedBodies : RegStart(1, body)
  \/ RegCheckDuplicate(1)
  \/ RegHashPassword(1)
  \/ RegConnect(1)
  \/ RegBegin(1)
  \/ RegInsert(1)
  \/ RegIssueToken(1)
  \/ RegCommit(1)
  \/ \E f \in ForgotReqs, email \in ForgotEmails : ForgotStart(f, email)
  \/ \E f \in ForgotReqs : ForgotLookup(f)
  \/ \E f \in ForgotReqs, msg \in FaultMessages : ForgotFault(f, msg)

SpecForgot == Init /\ [][ForgotNext]_vars

\* every request of every kind, concurrently; the specifications above are
\* its restrictions to the requests a group of properties is about
Next ==
  \/ \E r \in RegReqs : RegStep(r, RegBodies \cup InputBodies)
  \/ \E r \in RegReqs, msg \in FaultMessages : RegFault(r, msg)
  \/ \E r \in RegReqs, msg \in FaultMessages : RegRespondFault(r, msg)
  \/ \E r \in RegReqs, msg \in FaultMessages : RegRollbackFault(r, msg)
  \/ \E l \in LoginReqs : LoginStep(l)
  \/ \E l \in LoginReqs, body \in InputLogins : LoginStart(l, body)
  \/ \E l \in LoginReqs, msg \in FaultMessages : LoginFault(l, msg)
  \/ AdminStep
  \/ \E u \in users, role \in Roles : AdminSetRole(u, role)
  \/ Logout
  \/ \E f \in ForgotReqs, email \in ForgotEmails : ForgotStart(f, email)
  \/ \E f \in ForgotReqs : ForgotLookup(f)
  \/ \E f \in ForgotReqs, msg \in FaultMessages : ForgotFault(f, msg)
  \/ \E t \in Instants \cup ExpiryInstants : Tick(t)
  \/ \E ip \in Addresses, header \in Headers : GuardRateLimit(ip, header)
  \/ GuardAuthenticate

Spec == InitAnyEnv /\ [][Next]_vars

\* ------------------------------------------------------------ registration
EqualIgnoringCase(a, b) == ToLowerCase(a) = ToLowerCase(b)

RegAllDone == \A r \in RegReqs : reg[r].pc = "done"

RegSucceeded == {r \in RegReqs : reg[r].pc = "done" /\ reg[r].resp.status = 201}

\* C1: when all the registrations carry valid bodies with the same email and
\* all have answered, exactly one answered 201 and every other one answered
\* the 409 USER_EXISTS conflict.
C1_OneSuccessOthersConflict ==
  (/\ RegAllDone
   /\ \A r \in RegReqs : RegValidate(reg[r].body) = NoResp
   /\ \A r, q \in RegReqs : reg[r].body.email = reg[q].body.email)
  => /\ Cardinality(RegSucceeded) = 1
     /\ \A r \in RegReqs \ RegSucceeded : reg[r].resp = UserExists

\* C2: no two committed rows of users have emails equal ignoring case.
C2_EmailUniqueIgnoringCase ==
  \A u, v \in users : u # v => ~EqualIgnoringCase(u.email, v.email)

\* a registration whose INSERT the UNIQUE(email) constraint refused although
\* its duplicate check had passed, the emails differing as typed
C2_Witness ==
  \E r, q \in RegReqs :
    /\ reg[r].pc = "done" /\ reg[r].err = "unique_violation"
    /\ reg[q].pc = "done" /\ reg[q].resp.status = 201
    /\ reg[r].body.email # reg[q].body.email
    /\ EqualIgnoringCase(reg[r].body.email, reg[q].body.email)
    /\ Trim(reg[r].body.username) # Trim(reg[q].body.username)
    /\ Cardinality(users) = 1

\* C3: no two committed rows of users have usernames equal ignoring case.
C3_UsernameUniqueIgnoringCase ==
  \A u, v \in users : u # v => ~EqualIgnoringCase(u.username, v.username)

\* C4: a registration whose duplicate check runs when a committed row has its
\* email or its username, ignoring case, answers the one 409 USER_EXISTS
\* response and ends there, the table unchanged.
C4_LaterDuplicateRejected ==
  [][\A r \in RegReqs :
       (/\ reg[r].pc = "check"
        /\ reg'[r].pc # "check"
        /\ \E u \in users :
             \/ EqualIgnoringCase(u.email, Trim(reg[r].body.email))
             \/ EqualIgnoringCase(u.username, Trim(reg[r].body.username)))
       => (/\ reg'[r].pc = "done"
           /\ reg'[r].resp = UserExists
           /\ users' = users)]_vars

\* a registration rejected for its username alone, typed in another case
C4_Witness ==
  \E r \in RegReqs :
    /\ reg[r].pc = "done" /\ reg[r].resp = UserExists
    /\ \E u \in users :
         /\ EqualIgnoringCase(u.username, Trim(reg[r].body.username))
         /\ u.username # Trim(reg[r].body.username)
    /\ \A u \in users : ~EqualIgnoringCase(u.email, Trim(reg[r].body.email))

\* ------------------------------------------------------------------- login
LoginIssued(l) ==
  login[l].resp.token # NoToken \/ login[l].resp.cookie # NoToken

\* C5: a login answers with a token, in the body or the cookie, only if the
\* lookup found a row for the email and that row's digest was made from the
\* supplied password; a lookup that found no row answers INVALID_CREDENTIALS.
C5_TokenOnlyAfterVerification ==
  \A l \in LoginReqs :
    login[l].pc = "done" =>
      /\ LoginIssued(l) =>
           /\ login[l].user # NoRow
           /\ EqualIgnoringCase(login[l].user.email, Trim(login[l].body.email))
           /\ login[l].user.password.pw = login[l].body.password
      /\ (login[l].user = NoRow /\ login[l].resp # MissingCredentials) =>
           /\ login[l].resp = errorResponse
           /\ ~LoginIssued(l)

\* a login that answered with a token beside one that found no row
C5_Witness ==
  \E l, m \in LoginReqs :
    /\ login[l].pc = "done" /\ LoginIssued(l) /\ login[l].resp.status = 200
    /\ login[m].pc = "done" /\ login[m].user = NoRow
    /\ login[m].compared = DecoyDigest

\* C6: a login with the email and the correct password of a user whose status
\* is suspended or closed answers ACCOUNT_INACTIVE and issues no token.
C6_InactiveRejected ==
  \A l \in LoginReqs :
    (/\ login[l].pc = "done"
     /\ login[l].user # NoRow
     /\ login[l].user.status # "active"
     /\ login[l].user.password.pw = login[l].body.password)
    => /\ login[l].resp.code = "ACCOUNT_INACTIVE"
       /\ ~LoginIssued(l)

\* C7: a login for an email without a row and a login with a wrong password
\* for an email with a row get the same response, a 401.
C7_SameResponse ==
  \A l, m \in LoginReqs :
    (/\ login[l].pc = "done" /\ login[m].pc = "done"
     /\ login[l].compared = DecoyDigest
     /\ login[m].user # NoRow
     /\ login[m].user.password.pw # login[m].body.password)
    => /\ login[l].resp = login[m].resp
       /\ login[l].resp.status = 401

C7_Witness ==
  \E l, m \in LoginReqs :
    /\ login[l].pc = "done" /\ login[m].pc = "done"
    /\ login[l].compared = DecoyDigest
    /\ login[m].user # NoRow
    /\ login[m].user.password.pw # login[m].body.password
    /\ login[l].body.password # login[m].body.password

\* ----------------------------------------------------------- session guard
\* the signature is the HS256 signature of the token's own payload
SignedBySecret(tok) ==
  /\ tok # EmptyToken
  /\ tok.alg = "HS256"
  /\ tok.sig = <<"JWT_SECRET", tok.id, tok.email, tok.role, tok.iat, tok.exp>>

\* the step in which authMiddleware finishes the current request
GuardFinishes == guard.pc # "done" /\ guard'.pc = "done"

C9_IssuedTokenAccepted ==
  [][(/\ GuardFinishes
      /\ guard.pc = "auth"
      /\ guard.header.present /\ guard.header.prefix = "Bearer "
      /\ guard.header.token \in IssuedTokens
      /\ now < guard.header.token.exp
      /\ \E u \in users : u.id = guard.header.token.id /\ u.status = "active")
     => /\ guard'.out.next
        /\ guard'.out.user.id = guard.header.token.id]_vars

\* C10: of the requests within the rate ceiling, one without a header that
\* starts with 'Bearer ' is answered MISSING_TOKEN, one whose token carries
\* the secret's signature but has expired TOKEN_EXPIRED, one whose token does
\* not carry it MALFORMED_TOKEN, each with status 401, without entering the
\* user lookup and without next().
C10_RejectionCodes ==
  [][(GuardFinishes /\ guard.pc = "auth") =>
       LET h == guard.header
           o == guard'.out
       IN /\ ~(h.present /\ h.prefix = "Bearer ") =>
               o.resp = MissingToken /\ ~o.lookup /\ ~o.next
          /\ (h.present /\ h.prefix = "Bearer " /\ SignedBySecret(h.token)
                /\ now >= h.token.exp) =>
               /\ o.resp.status = 401 /\ o.resp.code = "TOKEN_EXPIRED"
               /\ ~o.lookup /\ ~o.next
          /\ (h.present /\ h.prefix = "Bearer " /\ ~SignedBySecret(h.token)) =>
               /\ o.resp.status = 401 /\ o.resp.code = "MALFORMED_TOKEN"
               /\ ~o.lookup /\ ~o.next]_vars

\* an issued token sent with its last character removed was answered
\* MALFORMED_TOKEN
C10_Witness ==
  /\ guard.pc = "done"
  /\ guard.points <= RATE_POINTS
  /\ guard.header.prefix = "Bearer "
  /\ \E t \in IssuedTokens : guard.header.token = DropLastChar(t)
  /\ guard.out.resp.code = "MALFORMED_TOKEN"
  /\ ~guard.out.lookup

\* C11: a request within the rate ceiling that carries an unexpired token of
\* a 200 or 201 response, whose user has since been suspended or closed or is
\* no longer in the table, is answered 403 USER_INACTIVE and is not handed on.
C11_InactiveAnsweredUserInactive ==
  [][(/\ GuardFinishes
      /\ guard.pc = "auth"
      /\ guard.header.present /\ guard.header.prefix = "Bearer "
      /\ guard.header.token \in IssuedTokens
      /\ now < guard.header.token.exp
      /\ ~\E u \in users : u.id = guard.header.token.id /\ u.status = "active")
     => /\ guard'.out.resp.status = 403
        /\ guard'.out.resp.code = "USER_INACTIVE"
        /\ ~guard'.out.next]_vars

\* ------------------------------------------------------------------- tokens
\* jwt.verify returned the claims: authMiddleware went on to the user lookup
VerifyAccepted(out) == out.lookup

\* C12 (as stated): a token that carries the secret's signature, issued at
\* iat with exp = iat + JWT_EXPIRES_IN, is accepted by jwt.verify at every
\* second now <= exp and answered TOKEN_EXPIRED at every second now > exp.
C12_AcceptedThroughExp ==
  [][(/\ GuardFinishes
      /\ guard.pc = "auth"
      /\ guard.header.present /\ guard.header.prefix = "Bearer "
      /\ SignedBySecret(guard.header.token))
     => /\ guard.header.token.exp = guard.header.token.iat + JWT_EXPIRES_IN
        /\ now <= guard.header.token.exp =>
             VerifyAccepted(guard'.out) /\ guard'.out.resp.code # "TOKEN_EXPIRED"
        /\ now > guard.header.token.exp =>
             ~VerifyAccepted(guard'.out) /\ guard'.out.resp.code = "TOKEN_EXPIRED"]_vars

\* C12 (amended): such a token is accepted by jwt.verify at every second
\* now < exp and answered TOKEN_EXPIRED at every second now >= exp; the
\* second exp itself is already expired.
C12_AcceptedBeforeExp ==
  [][(/\ GuardFinishes
      /\ guard.pc = "auth"
      /\ guard.header.present /\ guard.header.prefix = "Bearer "
      /\ SignedBySecret(guard.header.token))
     => /\ guard.header.token.exp = guard.header.token.iat + JWT_EXPIRES_IN
        /\ now < guard.header.token.exp =>
             VerifyAccepted(guard'.out) /\ guard'.out.resp.code # "TOKEN_EXPIRED"
        /\ now >= guard.header.token.exp =>
             ~VerifyAccepted(guard'.out) /\ guard'.out.resp.code = "TOKEN_EXPIRED"]_vars

\* a token presented in the very second of its exp was answered TOKEN_EXPIRED
C12_Witness ==
  /\ guard.pc = "done"
  /\ guard.header.prefix = "Bearer "
  /\ SignedBySecret(guard.header.token)
  /\ now = guard.header.token.exp
  /\ guard.out.resp.code = "TOKEN_EXPIRED"

\* the claims {id, role, iat, exp} of a token bound to the row user
CarriesClaimSetOf(tok, user) ==
  /\ tok.id = user.id
  /\ tok.role # "" /\ tok.role = user.role
  /\ tok.exp = tok.iat + JWT_EXPIRES_IN

RegFailed ==
  {r \in RegReqs : reg[r].pc = "done" /\ reg[r].resp.status \notin {201, 400, 409}}

\* C14: a registration answered with an error after validation passed is
\* answered with a 500, and when it is answered the table holds no row that
\* the request inserted; a transaction it began was rolled back.
C14_FailureLeavesNoRow ==
  \A r \in RegFailed :
    /\ reg[r].resp.status = 500
    /\ \A u \in users : u.id # reg[r].newUser.id
    /\ (\E i \in DOMAIN reg[r].ops : reg[r].ops[i] = "BEGIN") =>
         reg[r].ops[Len(reg[r].ops)] = "ROLLBACK"

\* the error bodies finished registrations and logins have sent
ErrorBodies ==
  {reg[r].resp : r \in {r \in RegReqs : reg[r].pc = "done" /\ reg[r].resp.status >= 400}}
    \cup {login[l].resp : l \in {l \in LoginReqs : login[l].pc = "done"
                                                    /\ login[l].resp.status >= 400}}

\* the members of a response body that hold text
BodyTexts(resp) ==
  {resp.error, resp.code} \cup (IF "debug" \in DOMAIN resp THEN {resp.debug} ELSE {})

\* C19: whatever NODE_ENV is, no error body of registerUser or loginUser has
\* a member holding the message of the error that was caught.
C19_NoInternalErrorText ==
  \A resp \in ErrorBodies : BodyTexts(resp) \cap FaultMessages = {}

\* --------------------------------------------------------------- validation
\* a field that is in the payload and is not empty once its spaces are trimmed
NonEmptyTrimmed(field) == field # Absent /\ TrimEnd(TrimStart(field)) # <<>>

\* the payloads validation is to accept: the trimmed email matches the
\* address pattern, username and password are non-empty after trimming, the
\* password has at least 8 characters, a digit and an uppercase letter
Acceptable(body) ==
  /\ NonEmptyTrimmed(body.email)
  /\ EmailRegexTest(TrimEnd(TrimStart(body.email)))
  /\ NonEmptyTrimmed(body.username)
  /\ NonEmptyTrimmed(body.password)
  /\ Len(body.password) >= 8
  /\ \E i \in DOMAIN body.password : IsDigit(body.password[i])
  /\ \E i \in DOMAIN body.password : IsUpper(body.password[i])

\* a login payload with the email or the password absent or empty
MissingCredential(body) ==
  body.email \in {Absent, <<>>} \/ body.password \in {Absent, <<>>}

\* C15: a registration whose payload validation is not to accept, and a login
\* with a missing email or password, is answered at once with a 400, having
\* sent no statement to the store and holding no connection, the table and
\* its id sequence unchanged; being finished, it sends none later.
C15_InvalidInputTouchesNoStore ==
  [][/\ \A r \in RegReqs :
          (reg[r].pc = "idle" /\ reg'[r].pc # "idle" /\ ~Acceptable(reg'[r].body))
          => /\ reg'[r].pc = "done"
             /\ reg'[r].resp.status = 400
             /\ reg'[r].ops = <<>> /\ ~reg'[r].client /\ reg'[r].pending = NoRow
             /\ users' = users /\ nextId' = nextId
     /\ \A l \in LoginReqs :
          (login[l].pc = "idle" /\ login'[l].pc # "idle"
             /\ MissingCredential(login'[l].body))
          => /\ login'[l].pc = "done"
             /\ login'[l].resp.status = 400
             /\ login'[l].ops = <<>>
             /\ users' = users /\ nextId' = nextId
     /\ \A r \in RegReqs : reg[r].pc = "done" => reg'[r] = reg[r]
     /\ \A l \in LoginReqs : login[l].pc = "done" => login'[l] = login[l]]_vars

\* a registration without a password and a login without an email, both
\* answered 400 with no statement sent
C15_Witness ==
  \E r \in RegReqs, l \in LoginReqs :
    /\ reg[r].pc = "done" /\ reg[r].body.password = Absent
    /\ reg[r].resp.status = 400 /\ reg[r].ops = <<>>
    /\ login[l].pc = "done" /\ login[l].body.email = Absent
    /\ login[l].resp.status = 400 /\ login[l].ops = <<>>

IsProjectionOf(user, row) ==
  /\ DOMAIN user = {"id", "email", "username", "role", "created_at"}
  /\ \A f \in DOMAIN user : user[f] = row[f]

\* C17: a 201 of registerUser carries a token whose id is that of the row the
\* request inserted and whose role is "user", with that row's projection; a
\* 200 of loginUser carries a token whose id and role are those of the row
\* whose email is the payload's ignoring case, with that row's projection.
C17_TokenBoundToUser ==
  /\ \A r \in RegSucceeded :
       \E u \in users :
         /\ u.email = ToLowerCase(TrimEnd(TrimStart(reg[r].body.email)))
         /\ reg[r].resp.token # NoToken
         /\ reg[r].resp.token.id = u.id
         /\ reg[r].resp.token.role = "user"
         /\ IsProjectionOf(reg[r].resp.user, u)
  /\ \A l \in LoginReqs :
       (login[l].pc = "done" /\ login[l].resp.status = 200) =>
         \E u \in users :
           /\ EqualIgnoringCase(u.email, login[l].body.email)
           /\ login[l].resp.token # NoToken
           /\ login[l].resp.token.id = u.id
           /\ login[l].resp.token.role = u.role
           /\ IsProjectionOf(login[l].resp.user, u)

\* both users registered, and a login of the second answered with a token
C17_Witness ==
  /\ Cardinality(RegSucceeded) = 2
  /\ \E l \in LoginReqs :
       /\ login[l].pc = "done" /\ login[l].resp.status = 200
       /\ login[l].resp.token.id = reg[2].resp.user.id
       /\ login[l].resp.token.id # reg[1].resp.user.id

\* --------------------------------------------------------------- projection
PublicFields == {"id", "email", "username", "role", "created_at"}

\* the user structure of a response: absent, or exactly the public fields
IsPublicUser(user) == user = NoUser \/ DOMAIN user = PublicFields

C20_AlgorithmPinned ==
  [][(/\ GuardFinishes
      /\ guard.pc = "auth"
      /\ guard.header.present /\ guard.header.prefix = "Bearer "
      /\ guard.header.token # EmptyToken)
     => /\ VerifyAccepted(guard'.out) =>
             /\ guard.header.token.alg = "HS256"
             /\ SignedBySecret(guard.header.token)
        /\ guard.header.token.alg # "HS256" =>
             /\ guard'.out.resp.status = 401
             /\ guard'.out.resp.code = "MALFORMED_TOKEN"
             /\ ~VerifyAccepted(guard'.out)
             /\ ~guard'.out.next]_vars

\* an unexpired issued token with its header changed to HS384 and its
\* signature bytes kept was answered MALFORMED_TOKEN
C20_Witness ==
  /\ guard.pc = "done"
  /\ guard.header.prefix = "Bearer "
  /\ \E t \in IssuedTokens : guard.header.token = WithAlg(t, "HS384")
  /\ now < guard.header.token.exp
  /\ guard.out.resp.code = "MALFORMED_TOKEN"
  /\ ~guard.out.lookup

\* ------------------------------------------------------------- rate ceiling
\* the admissions of an address in the rate window that is open at second t:
\* the window runs for RATE_DURATION seconds from the first request counted
\* in it
AdmittedInOpenWindow(a, t) ==
  IF limiter[a].expiresAt > t
  THEN Len(SelectSeq(admitted[a],
                     LAMBDA s : s >= limiter[a].expiresAt - RATE_DURATION))
  ELSE 0

\* C21 (as stated): of the requests of one address, at most 5 get past step 1
\* within any 60 seconds.
C21_CeilingAnySixtySeconds ==
  \A a \in Addresses : Len(admitted[a]) <= 5

\* C21 (amended): step 1 comes first and counts per address and per rate
\* window, a window being the 60 seconds from the first request counted in
\* it: a request of an address with fewer than 5 admissions in its open
\* window gets past step 1; one with 5 is answered 429 with the seconds to
\* the window's end as retryAfter, whatever its header, without steps 2 to
\* 6; the counts and admissions of the other addresses are unchanged.
C21_CeilingPerRateWindow ==
  [][limiter' # limiter =>
       LET ip == guard'.ip
           n == AdmittedInOpenWindow(ip, now)
       IN /\ n <= 5
          /\ n < 5 =>
               /\ guard'.pc = "auth"
               /\ guard'.out.resp = NoGuardResp
               /\ Len(admitted'[ip]) > 0
               /\ admitted'[ip][Len(admitted'[ip])] = now
          /\ n = 5 =>
               /\ guard'.pc = "done"
               /\ guard'.out.resp.status = 429
               /\ guard'.out.resp.retryAfter = limiter[ip].expiresAt - now
               /\ guard'.out.resp.retryAfter \in 1 .. 60
               /\ ~guard'.out.lookup /\ ~guard'.out.next
               /\ Len(admitted'[ip]) <= Len(admitted[ip])
          /\ \A a \in Addresses \ {ip} :
               limiter'[a] = limiter[a] /\ admitted'[a] = admitted[a]]_vars

\* a request carrying an issued token answered 429, its address having 9
\* admissions within 60 seconds, and the other address admitted meanwhile
C21_Witness ==
  /\ guard.pc = "done"
  /\ guard.out.resp.status = 429
  /\ guard.header.token \in IssuedTokens
  /\ Len(admitted[guard.ip]) = 9
  /\ \E a \in Addresses \ {guard.ip} : Len(admitted[a]) > 0

\* ---------------------------------------------------------------------
\* a login answered with the INVALID_CREDENTIALS response
LoginRefused(l) ==
  /\ login[l].pc = "done"
  /\ login[l].resp = errorResponse

DigestToVerify(l) ==
  IF login[l].user = NoRow THEN DecoyDigest ELSE login[l].user.password

\* C27: a login that passed validation and whose lookup returned answers only
\* after exactly one password verification, against the stored digest of the
\* user found or against the decoy when none was found; no response precedes
\* the verification and no INVALID_CREDENTIALS response is without one
C27_OneVerificationBeforeResponse ==
  \A l \in LoginReqs :
    /\ login[l].pc # "done"
         => login[l].resp = NoResp /\ login[l].work = <<>>
    /\ (login[l].pc = "done" /\ login[l].ops = <<"SELECT">>)
         => /\ Len(login[l].work) = 1
            /\ login[l].compared = DigestToVerify(l)
            /\ login[l].work[1] = BcryptWork(DigestToVerify(l))
            /\ login[l].resp.status \in {200, 401}
    /\ login[l].resp = errorResponse => Len(login[l].work) = 1

\* one login answered after the decoy comparison beside one that succeeded
\* after the comparison against the stored digest
C27_Witness ==
  \E l, m \in LoginReqs :
    /\ login[l].pc = "done" /\ login[l].user = NoRow
    /\ login[l].work = <<BcryptWork(DecoyDigest)>>
    /\ login[m].pc = "done" /\ login[m].user # NoRow
    /\ login[m].resp.status = 200
    /\ Len(login[m].work) = 1

\* ---------------------------------------------------------------------
\* the rows and tokens steps 5 and 6 would be run with: a row of an active
\* user and a token of that user which jwt.verify accepts now
Acceptable_RowAndToken(u, tok) ==
  /\ u \in users /\ tok \in IssuedTokens
  /\ u.id = tok.id
  /\ u.status = "active"
  /\ JwtVerify(tok, now).err = ""

C24_IssuedTokenStaysAccepted ==
  [][(/\ GuardFinishes
      /\ guard.pc = "auth"
      /\ guard.header \in {Bearer(tok) : tok \in IssuedTokens}
      /\ SignedBySecret(guard.header.token)
      /\ now < guard.header.token.exp
      /\ \E u \in users : u.id = guard.header.token.id /\ u.status = "active")
     => guard'.out.next]_vars

\* the second part of C24: a protected request's outcome is that of the
\* header, the rows and the clock, and a logout changes none of them
C24_NoSessionState ==
  [][/\ (guard.pc = "auth" /\ guard'.pc = "done")
        => guard'.out = GuardDecide(guard.header, users, now)
     /\ logout' # logout
        => /\ users' = users /\ guard' = guard /\ limiter' = limiter
           /\ IssuedTokens' = IssuedTokens]_vars

ComesAfter(ops, a, b) ==
  \A i \in 1 .. Len(ops) : ops[i] = b => \E j \in 1 .. i - 1 : ops[j] = a

\* the registrations whose duplicate check found nothing and whose insert is
\* still to come
BetweenCheckAndInsert ==
  {r \in RegReqs : reg[r].pc \in {"hash", "connect", "begin", "insert"}}

\* C25: the duplicate check of a registration runs on the connection it
\* acquired, after its BEGIN, as its insert does; and between its duplicate
\* check and its insert no row is committed that conflicts with the row it
\* is about to insert
C25_CheckInsideTransaction ==
  \A r \in RegReqs :
    /\ ComesAfter(reg[r].ops, "CONNECT", "SELECT")
    /\ ComesAfter(reg[r].ops, "BEGIN", "SELECT")
    /\ ComesAfter(reg[r].ops, "BEGIN", "INSERT")
    /\ r \in BetweenCheckAndInsert
         => SelectExisting(users, Trim(reg[r].body.email),
                           Trim(reg[r].body.username)) = {}

\* ---------------------------------------------------------------------
\* the place of a position of registerUser in the order Validate,
\* CheckDuplicate, HashPassword, InsertAtomic (connect, BEGIN, INSERT),
\* IssueToken, Commit, followed by the rollback and the end
StepRank(pc) ==
  CASE pc = "idle" -> 0
    [] pc = "check" -> 1
    [] pc = "hash" -> 2
    [] pc = "connect" -> 3
    [] pc = "begin" -> 4
    [] pc = "insert" -> 5
    [] pc = "sign" -> 6
    [] pc = "commit" -> 7
    [] pc = "rollback" -> 8
    [] pc = "done" -> 9

\* the statements of a registration in the order of its steps
StatementOrder == <<"SELECT", "CONNECT", "BEGIN", "INSERT", "COMMIT">>

\* ops is a beginning of StatementOrder, possibly followed by ROLLBACK
InStatementOrder(ops) ==
  LET n == IF ops # <<>> /\ ops[Len(ops)] = "ROLLBACK" THEN Len(ops) - 1 ELSE Len(ops)
  IN /\ n <= Len(StatementOrder)
     /\ SubSeq(ops, 1, n) = SubSeq(StatementOrder, 1, n)

\* C26: a registration moves through Validate, CheckDuplicate, HashPassword,
\* InsertAtomic, IssueToken, Commit in that order and never back; the step at
\* which an error is caught is its last step before the rollback or the end;
\* a token reaches the client, in the body or as the cookie, only with or
\* after a COMMIT that succeeded, and the row of its id is then in the table
C26_LinearAndTokenAfterCommit ==
  [][\A r \in RegReqs :
       /\ reg'[r].pc # reg[r].pc => StepRank(reg'[r].pc) > StepRank(reg[r].pc)
       /\ reg[r].pc = "done" => reg'[r] = reg[r]
       /\ InStatementOrder(reg'[r].ops)
       /\ (reg[r].err = "" /\ reg'[r].err # "")
            => reg'[r].pc \in {"rollback", "done"}
       /\ (reg[r].err # "" /\ reg'[r] # reg[r])
            => reg[r].pc = "rollback" /\ reg'[r].pc = "done"
       /\ reg'[r].resp # NoResp <=> reg'[r].pc = "done"
       /\ (reg'[r].resp # NoResp /\ reg'[r].resp.token # NoToken)
            => /\ reg'[r].resp.status = 201
               /\ reg'[r].ops = StatementOrder
               /\ \E u \in users' : u.id = reg'[r].resp.token.id
       /\ (reg'[r].resp # NoResp /\ reg'[r].resp.cookie # NoToken)
            => /\ Len(reg'[r].ops) >= 5
               /\ SubSeq(reg'[r].ops, 1, 5) = StatementOrder
               /\ \E u \in users' : u.id = reg'[r].resp.cookie.id
       /\ reg'[r].resp.status = 201
            => reg'[r].resp.token = reg'[r].token /\ reg'[r].token # NoToken]_vars

\* a registration answered 201 with its token after all six steps, its row
\* committed
C26_Witness ==
  \E r \in RegReqs :
    /\ reg[r].pc = "done"
    /\ reg[r].resp.status = 201
    /\ reg[r].resp.token # NoToken
    /\ reg[r].ops = StatementOrder
    /\ \E u \in users : u.id = reg[r].resp.token.id

\* ---------------------------------------------------------------------
\* the registration got its connection: BEGIN is what it sends next, whether
\* that succeeds or not
Acquired(r) == \E i \in DOMAIN reg[r].ops : reg[r].ops[i] = "BEGIN"

\* the connections registerUser holds
ConnectionsHeld == Cardinality({r \in RegReqs : reg[r].client})

\* the releases of every registration match its acquisitions
ReleasesMatch ==
  \A r \in RegReqs :
    /\ reg[r].releases <= 1
    /\ reg[r].client
         => /\ reg[r].releases = 0
            /\ reg[r].pc \in {"begin", "insert", "sign", "commit", "rollback"}
    /\ reg[r].pc = "done"
         => /\ ~reg[r].client
            /\ reg[r].releases = (IF Acquired(r) THEN 1 ELSE 0)

\* C28: a registration releases the connection it acquired exactly once, as
\* its last step, on every path (commit, failure of BEGIN, INSERT, jwt.sign,
\* COMMIT, of the response, of the ROLLBACK), never releases without holding
\* one, and when every registration has finished no connection is held
C28_ReleasedExactlyOnce ==
  [][/\ ReleasesMatch'
     /\ \A r \in RegReqs :
          reg'[r].releases # reg[r].releases
          => /\ reg'[r].releases = reg[r].releases + 1
             /\ reg[r].client /\ ~reg'[r].client
             /\ reg'[r].pc = "done"
     /\ (\A r \in RegReqs : reg'[r].pc \in {"idle", "done"}) => ConnectionsHeld' = 0]_vars

\* a registration that failed after its INSERT and COMMIT were sent, rolled
\* back and released its connection once
C28_Witness ==
  \E r \in RegReqs :
    /\ reg[r].pc = "done"
    /\ reg[r].resp.status = 500
    /\ reg[r].ops = StatementOrder \o <<"ROLLBACK">>
    /\ reg[r].releases = 1
    /\ ConnectionsHeld = 0

\* ---------------------------------------------------------------------
\* forgot-password requests that carried a syntactically valid email and
\* were answered without a failure of the store
ForgotAnswered ==
  {f \in ForgotReqs : /\ forgot[f].pc = "done"
                      /\ ~Falsy(forgot[f].email)
                      /\ EmailRegexTest(forgot[f].email)
                      /\ forgot[f].resp # ForgotError}

\* C30: for a syntactically valid email and without a failure of the store,
\* the forgot-password route answers with the same status and body whether
\* or not the lookup found a user with that email
C30_SameAnswerFoundOrNot ==
  /\ \A f, g \in ForgotAnswered : forgot[f].resp = forgot[g].resp
  /\ \A f \in ForgotAnswered : forgot[f].resp.status = 200
  /\ \A f \in ForgotReqs : forgot[f].pc # "done" => forgot[f].resp = NoResp

\* two answered requests for the same email, one whose lookup found the
\* user and one whose lookup, before the registration committed, did not
C30_Witness ==
  \E f, g \in ForgotAnswered :
    /\ forgot[f].email = forgot[g].email
    /\ forgot[f].found /\ ~forgot[g].found


====
